---- MODULE Spec2Model ----
(***************************************************************************)
(* A model of the Reddit thread summarizer (src/src/main.py): the tree     *)
(* flattener get_body_contents, the chunker concatenate_bodies, the        *)
(* summarization loop generate_summary / complete_chunk and the driver     *)
(* main.                                                                   *)
(*                                                                         *)
(* Text.  A Python str is modelled as a sequence of symbols.  The symbol   *)
(* "\n" is the newline character; every other symbol stands for a run of   *)
(* text that holds no newline (a word, a sentence, a literal of the prompt *)
(* template).  Concatenation of strings is \o, the empty string is <<>>.   *)
(*                                                                         *)
(* JSON.  A decoded JSON value is a record [kind, keys, kids, val]:        *)
(*   kind = "dict":   keys[k] is the k-th key in insertion order and       *)
(*                    kids[k] its value;                                   *)
(*   kind = "list":   kids[k] is the element of index k-1;                 *)
(*   kind = "scalar": val is the text of a string.                         *)
(***************************************************************************)
EXTENDS Integers, Sequences, FiniteSets, TLC

VARIABLES
    pc,                     \* the position of the running program
    data,                   \* the JSON tree given to the program (reddit_json)
    contents,               \* the (path, body) records drawn from the tree
    groups,                 \* the chunks: concatenate_bodies' result, generate_summary's groups
    title,                  \* main's title
    selftext,               \* main's selftext
    max_number_of_passes,   \* the pass cap (MAX_NUMBER_OF_SUMMARIES when left as shipped)
    prefix,                 \* generate_summary's prefix
    output,                 \* generate_summary's output (the transcript)
    i,                      \* the index of the next pass of generate_summary's loop
    calls,                  \* the invocations of openai.Completion.create so far
    err,                    \* the exception that ended the program, "" when none
    saved                   \* the files written by save_output

vars == <<pc, data, contents, groups, title, selftext, max_number_of_passes,
          prefix, output, i, calls, err, saved>>

----------------------------------------------------------------------------
(* Program constants *)

MAX_CHUNK_SIZE == 2500

MAX_NUMBER_OF_SUMMARIES == 1

MAX_TOKENS == 4000

(* Bounds of the model *)

\* the depth of the trees given to get_body_contents
MaxDepth == 2

\* the number of records given to concatenate_bodies
MaxRecords == 3

\* the number of top-level comments of a thread given to main
MaxComments == 3

\* the largest pass cap tried
MaxPasses == 3

----------------------------------------------------------------------------
(* Text *)

NL == "\n"

\* Sequences over S of length at most n.
SeqUpTo(S, n) == UNION {[1..k -> S] : k \in 0..n}

Min(a, b) == IF a < b THEN a ELSE b

RECURSIVE Concat(_)
\* "".join(parts)
Concat(parts) == IF parts = <<>> THEN <<>> ELSE Head(parts) \o Concat(Tail(parts))

\* The tokens of one symbol.  "t<n>" is a run of text of n tokens; the
\* other symbols are the literals of the prompt and transcript templates.
TokenWeight(sym) ==
    CASE sym = NL -> 1
      [] sym = "t5" -> 5
      [] sym = "t10" -> 10
      [] sym = "t1300" -> 1300
      [] sym = "t2600" -> 2600
      [] sym = "INSTRUCTION_TEXT" -> 41
      [] sym = "COMMENTS BEGIN" -> 3
      [] sym = "COMMENTS END" -> 3
      [] sym = "Title:" -> 2
      [] sym = "Title: " -> 2
      [] sym = "END" -> 1
      [] OTHER -> 1

RECURSIVE get_token_length(_)
\* The token counter: deterministic, and additive over the symbols of a text.
get_token_length(text) ==
    IF text = <<>> THEN 0
    ELSE TokenWeight(Head(text)) + get_token_length(Tail(text))

RECURSIVE CollapseNewlines(_)
\* re.sub(r"\n+", "\n", text): every run of newlines becomes one newline.
CollapseNewlines(text) ==
    IF Len(text) <= 1 THEN text
    ELSE IF text[1] = NL /\ text[2] = NL THEN CollapseNewlines(Tail(text))
    ELSE <<text[1]>> \o CollapseNewlines(Tail(text))

----------------------------------------------------------------------------
(* JSON trees *)

Scalar(text) == [kind |-> "scalar", keys |-> <<>>, kids |-> <<>>, val |-> text]

Dict(ks, vs) == [kind |-> "dict", keys |-> ks, kids |-> vs, val |-> <<>>]

List(vs) == [kind |-> "list", keys |-> <<>>, kids |-> vs, val |-> <<>>]

\* key in data, for a dict
HasKey(node, key) == \E k \in 1..Len(node.keys) : node.keys[k] = key

\* data[key], for a dict that has the key
Lookup(node, key) == node.kids[CHOOSE k \in 1..Len(node.keys) : node.keys[k] = key]

RECURSIVE JoinPath(_)
\* "/".join([str(x) for x in path])
JoinPath(path) ==
    IF path = <<>> THEN ""
    ELSE IF Len(path) = 1 THEN path[1]
    ELSE path[1] \o "/" \o JoinPath(Tail(path))

----------------------------------------------------------------------------
(* get_body_contents *)

RECURSIVE get_body_contents(_, _)
RECURSIVE BodiesOfItems(_, _, _)

\* The records yielded by the loop over a dict's items or a list's elements,
\* from position k on.
BodiesOfItems(node, path, k) ==
    IF k > Len(node.kids) THEN <<>>
    ELSE get_body_contents(node.kids[k],
             Append(path, IF node.kind = "dict" THEN node.keys[k] ELSE ToString(k - 1)))
         \o BodiesOfItems(node, path, k + 1)

\* A slip: the record of a mapping is yielded after the records of its items.
get_body_contents_after_items(node, path) ==
    IF node.kind = "dict" THEN
        BodiesOfItems(node, path, 1)
        \o (IF HasKey(node, "body")
               THEN << <<JoinPath(path), Lookup(node, "body")>> >>
               ELSE <<>>)
    ELSE IF node.kind = "list" THEN BodiesOfItems(node, path, 1)
    ELSE <<>>

\* The records yielded by get_body_contents(data, path), in the order yielded.
\* A record is <<path_str, data["body"]>>.
get_body_contents(node, path) ==
    IF node.kind = "dict" THEN
        (IF HasKey(node, "body")
            THEN << <<JoinPath(path), Lookup(node, "body")>> >>
            ELSE <<>>)
        \o BodiesOfItems(node, path, 1)
    ELSE IF node.kind = "list" THEN BodiesOfItems(node, path, 1)
    ELSE <<>>

----------------------------------------------------------------------------
(* concatenate_bodies *)

RECURSIVE ConcatenateLoop(_, _, _, _)
\* The for loop of concatenate_bodies from record k on: results and result
\* when the loop ends.
ConcatenateLoop(recs, k, results, result) ==
    IF k > Len(recs) THEN [results |-> results, result |-> result]
    ELSE IF recs[k][2] # <<>> THEN
        LET grown == result \o CollapseNewlines(recs[k][2]) \o <<NL>>
        IN  IF get_token_length(grown) > MAX_CHUNK_SIZE
                THEN ConcatenateLoop(recs, k + 1, Append(results, grown), <<>>)
                ELSE ConcatenateLoop(recs, k + 1, results, grown)
    ELSE ConcatenateLoop(recs, k + 1, results, result)

\* A slip: the accumulator left when the loop ends is not appended.
concatenate_bodies_no_tail(recs) == ConcatenateLoop(recs, 1, <<>>, <<>>).results

\* concatenate_bodies(contents): the list of chunks.
concatenate_bodies(recs) ==
    LET end == ConcatenateLoop(recs, 1, <<>>, <<>>)
    IN  IF end.result # <<>> THEN Append(end.results, end.result) ELSE end.results

----------------------------------------------------------------------------
(* get_metadata_from_reddit_json *)

NoError == <<>>

\* node[index], index an int: the value, or the exception raised.
ItemAt(node, index) ==
    IF node.kind = "list" THEN
        IF index < Len(node.kids)
            THEN [err |-> NoError, node |-> node.kids[index + 1]]
            ELSE [err |-> <<"IndexError">>, node |-> node]
    ELSE IF node.kind = "dict" THEN [err |-> <<"KeyError">>, node |-> node]
    ELSE IF index < Len(node.val)
        THEN [err |-> NoError, node |-> Scalar(<<node.val[index + 1]>>)]
        ELSE [err |-> <<"IndexError">>, node |-> node]

\* node[key], key a str: the value, or the exception raised.
ItemKey(node, key) ==
    IF node.kind = "dict" THEN
        IF HasKey(node, key)
            THEN [err |-> NoError, node |-> Lookup(node, key)]
            ELSE [err |-> <<"KeyError">>, node |-> node]
    ELSE [err |-> <<"TypeError">>, node |-> node]

\* key in node
Contains(node, key) ==
    IF node.kind = "dict" THEN HasKey(node, key)
    ELSE IF node.kind = "list" THEN \E k \in 1..Len(node.kids) : node.kids[k] = Scalar(<<key>>)
    ELSE \E k \in 1..Len(node.val) : node.val[k] = key

\* data[0]["data"]["children"][0]["data"]
ChildData(tree) ==
    LET a == ItemAt(tree, 0)
        b == IF a.err = NoError THEN ItemKey(a.node, "data") ELSE a
        c == IF b.err = NoError THEN ItemKey(b.node, "children") ELSE b
        d == IF c.err = NoError THEN ItemAt(c.node, 0) ELSE c
    IN  IF d.err = NoError THEN ItemKey(d.node, "data") ELSE d

\* get_metadata_from_reddit_json(data): the title and the selftext, or the
\* exception raised.
get_metadata_from_reddit_json(tree) ==
    LET child == ChildData(tree)
        failed(e) == [err |-> e, title |-> <<>>, selftext |-> <<>>]
    IN  IF child.err # NoError THEN failed(child.err)
        ELSE IF ~Contains(child.node, "title") THEN failed(<<"ValueError">>)
        ELSE IF ~Contains(child.node, "selftext") THEN failed(<<"ValueError">>)
        ELSE IF child.node.kind # "dict" THEN failed(<<"TypeError">>)
        ELSE [err |-> NoError,
              title |-> Lookup(child.node, "title").val,
              selftext |-> Lookup(child.node, "selftext").val]

----------------------------------------------------------------------------
(* generate_summary and complete_chunk *)

\* f"Title: {title}\n{selftext}"
InitialPrefix(ttl, stext) == <<"Title: ">> \o ttl \o <<NL>> \o stext

\* f"START\n\n{INSTRUCTION_TEXT}\n\n"
InitialOutput == <<"START", NL, NL, "INSTRUCTION_TEXT", NL, NL>>

\* A slip: the first group is not used twice.
InsertFirst_not_inserted(grps) == grps

\* groups.insert(0, groups[0]), for a list that is not empty
InsertFirst(grps) == <<grps[1]>> \o grps

\* A slip: the slice starts at the second group.
PassGroups_from_second(grps, cap) == SubSeq(grps, 2, Min(cap + 1, Len(grps)))

\* groups[:MAX_NUMBER_OF_SUMMARIES]
PassGroups(grps, cap) == SubSeq(grps, 1, Min(cap, Len(grps)))

\* The prompt of a pass: the f-string of generate_summary.
BuildPrompt(pfx, group) ==
    pfx \o <<NL, NL, "INSTRUCTION_TEXT", NL, NL, "COMMENTS BEGIN", NL>>
        \o group \o <<NL, "COMMENTS END", NL, NL, "Title:">>

\* max_tokens=MAX_TOKENS - get_token_length(prompt)
MaxTokensFor(prompt) == MAX_TOKENS - get_token_length(prompt)

\* A slip: the summary is added to the prefix of the pass.
NextPrefix_grown(ttl, pfx, summary) == pfx \o <<NL, NL>> \o summary \o <<NL, "END">>

\* f"{title}\n\n{summary}\nEND": the prefix of the pass, pfx, is not read.
NextPrefix(ttl, pfx, summary) == ttl \o <<NL, NL>> \o summary \o <<NL, "END">>

\* The transcript block of pass n: the two output += of the loop body.
OutputBlock(n, prompt, summary) ==
    <<NL, NL, "============", NL, "SUMMARY COUNT: ", ToString(n), NL, "============", NL>>
    \o <<"PROMPT: ">> \o prompt \o <<NL, NL>> \o summary
    \o <<NL, "======================================", NL, NL>>

\* The (path, body) records of a thread: the body of a record is the str
\* held by the 'body' key.
BodyRecords(tree) ==
    LET recs == get_body_contents(tree, <<>>)
    IN  [k \in 1..Len(recs) |-> <<recs[k][1], recs[k][2].val>>]

----------------------------------------------------------------------------
(* Inputs *)

\* The values of the leaves of the trees.
TreeScalars == {Scalar(<<"t5">>)}

\* The lengths of the lists of the trees.
TreeListLengths == 0..2

RECURSIVE Trees(_)
\* The trees of depth at most d: the leaves; the dicts with no key, with a
\* 'body' key, with a 'replies' key, and with both in either order (the body
\* then a leaf); the lists.
Trees(d) ==
    IF d = 0 THEN TreeScalars
    ELSE LET sub == Trees(d - 1)
         IN  TreeScalars
             \cup {Dict(<<>>, <<>>)}
             \cup {Dict(<<"body">>, <<v>>) : v \in sub}
             \cup {Dict(<<"replies">>, <<v>>) : v \in sub}
             \cup {Dict(<<"body", "replies">>, <<b, v>>) : <<b, v>> \in TreeScalars \X sub}
             \cup {Dict(<<"replies", "body">>, <<v, b>>) : <<b, v>> \in TreeScalars \X sub}
             \cup {List(vs) : vs \in UNION {[1..n -> sub] : n \in TreeListLengths}}

\* The bodies of the records given to concatenate_bodies: empty, short, with
\* runs of newlines, near half the budget, over the budget.
BodyChoices ==
    { <<>>, <<NL>>, <<"t5">>, <<"t10">>, <<"t10", NL, NL, "t5">>,
      <<"t1300">>, <<"t2600">>, <<NL, NL, "t1300", NL>> }

\* Record lists of at most n records; the path of record k is its index.
RecordLists(n) ==
    { [k \in 1..Len(bodies) |-> <<ToString(k - 1), bodies[k]>>] :
        bodies \in SeqUpTo(BodyChoices, n) }

\* The shapes of a Reddit thread: a list of two listings, the first with
\* the post, the second with the comments.
Listing(children) ==
    Dict(<<"kind", "data">>,
         <<Scalar(<<"Listing">>), Dict(<<"children">>, <<List(children)>>)>>)

Post(fields, values) ==
    Dict(<<"kind", "data">>, <<Scalar(<<"t3">>), Dict(fields, values)>>)

\* A comment: replies is "" when there is none, a listing otherwise.
Comment(body, replies) ==
    Dict(<<"kind", "data">>,
         <<Scalar(<<"t1">>), Dict(<<"body", "replies">>, <<Scalar(body), replies>>)>>)

NoReplies == Scalar(<<>>)

RECURSIVE ReplyChain(_)
\* Each comment the only reply to the one before it.
ReplyChain(bodies) ==
    IF bodies = <<>> THEN NoReplies
    ELSE Listing(<<Comment(Head(bodies), ReplyChain(Tail(bodies)))>>)

\* The comments of a thread, side by side or each the reply to the one before.
CommentListing(bodies, nested) ==
    IF nested /\ bodies # <<>> THEN ReplyChain(bodies)
    ELSE Listing([k \in 1..Len(bodies) |-> Comment(bodies[k], NoReplies)])

\* The bodies of the comments of the threads given to main.
ThreadBodies ==
    { <<>>, <<"t10">>, <<"t1300", NL, NL, "t5">>, <<"t2600", NL, "t10", NL, "t10">> }

ThreadTitle == <<"t5">>

ThreadSelftext == <<"t10">>

\* Threads of at most n comments with the expected root shape.
WellFormedThreads(n) ==
    { List(<<Listing(<<Post(<<"title", "selftext">>,
                            <<Scalar(ThreadTitle), Scalar(ThreadSelftext)>>)>>),
             CommentListing(bodies, nested)>>) :
        <<bodies, nested>> \in SeqUpTo(ThreadBodies, n) \X BOOLEAN }

\* Payloads without the expected root shape.
MalformedThreads ==
    { List(<<>>),
      Dict(<<>>, <<>>),
      List(<<Listing(<<>>), Listing(<<>>)>>),
      List(<<Listing(<<Post(<<"selftext">>, <<Scalar(ThreadSelftext)>>)>>),
             CommentListing(<< <<"t10">> >>, FALSE)>>),
      List(<<Listing(<<Post(<<"title">>, <<Scalar(ThreadTitle)>>)>>),
             CommentListing(<< <<"t10">> >>, FALSE)>>) }

\* What the completion provider may answer.
Completions == { <<"t5">>, <<"t1300", NL, "t10">> }

----------------------------------------------------------------------------
(* get_body_contents applied to a tree, twice *)

InitFlatten ==
    /\ pc = "flatten"
    /\ data \in Trees(MaxDepth)
    /\ contents = <<>>
    /\ groups = <<>>
    /\ title = <<>>
    /\ selftext = <<>>
    /\ max_number_of_passes = MAX_NUMBER_OF_SUMMARIES
    /\ prefix = <<>>
    /\ output = <<>>
    /\ i = 0
    /\ calls = <<>>
    /\ err = NoError
    /\ saved = <<>>

\* list(get_body_contents(data, []))
FlattenCall ==
    /\ pc = "flatten"
    /\ contents' = get_body_contents(data, <<>>)
    /\ pc' = "flattened"
    /\ UNCHANGED <<data, groups, title, selftext, max_number_of_passes, prefix,
                   output, i, calls, err, saved>>

\* list(get_body_contents(data, [])) once more, on the same tree
FlattenAgain ==
    /\ pc = "flattened"
    /\ contents' = get_body_contents(data, <<>>)
    /\ pc' = "reflattened"
    /\ UNCHANGED <<data, groups, title, selftext, max_number_of_passes, prefix,
                   output, i, calls, err, saved>>

NextFlatten == FlattenCall \/ FlattenAgain

SpecFlatten == InitFlatten /\ [][NextFlatten]_vars

----------------------------------------------------------------------------
(* concatenate_bodies applied to a list of records *)

InitChunk ==
    /\ pc = "chunk"
    /\ data = Scalar(<<>>)
    /\ contents \in RecordLists(MaxRecords)
    /\ groups = <<>>
    /\ title = <<>>
    /\ selftext = <<>>
    /\ max_number_of_passes = MAX_NUMBER_OF_SUMMARIES
    /\ prefix = <<>>
    /\ output = <<>>
    /\ i = 0
    /\ calls = <<>>
    /\ err = NoError
    /\ saved = <<>>

\* groups = concatenate_bodies(contents)
ChunkCall ==
    /\ pc = "chunk"
    /\ groups' = concatenate_bodies(contents)
    /\ pc' = "chunked"
    /\ UNCHANGED <<data, contents, title, selftext, max_number_of_passes, prefix,
                   output, i, calls, err, saved>>

NextChunk == ChunkCall

SpecChunk == InitChunk /\ [][NextChunk]_vars

----------------------------------------------------------------------------
(* main: one run of the program on a thread *)

Init ==
    /\ pc = "get_metadata"
    /\ data \in WellFormedThreads(MaxComments) \cup MalformedThreads
    /\ contents = <<>>
    /\ groups = <<>>
    /\ title = <<>>
    /\ selftext = <<>>
    /\ max_number_of_passes \in MAX_NUMBER_OF_SUMMARIES..MaxPasses
    /\ prefix = <<>>
    /\ output = <<>>
    /\ i = 0
    /\ calls = <<>>
    /\ err = NoError
    /\ saved = <<>>

\* title, selftext = get_metadata_from_reddit_json(reddit_json)
MainGetMetadata ==
    /\ pc = "get_metadata"
    /\ LET m == get_metadata_from_reddit_json(data)
       IN  IF m.err = NoError
               THEN /\ title' = m.title
                    /\ selftext' = m.selftext
                    /\ pc' = "concatenate_bodies"
                    /\ err' = err
               ELSE /\ pc' = "raised"
                    /\ err' = m.err \o <<"get_metadata_from_reddit_json">>
                    /\ UNCHANGED <<title, selftext>>
    /\ UNCHANGED <<data, contents, groups, max_number_of_passes, prefix, output, i,
                   calls, saved>>

\* contents = get_body_contents(reddit_json, []); groups = concatenate_bodies(contents):
\* the generator runs as concatenate_bodies draws from it.
MainConcatenateBodies ==
    /\ pc = "concatenate_bodies"
    /\ contents' = BodyRecords(data)
    /\ groups' = concatenate_bodies(BodyRecords(data))
    /\ pc' = "generate_summary"
    /\ UNCHANGED <<data, title, selftext, max_number_of_passes, prefix, output, i,
                   calls, err, saved>>

\* generate_summary up to its loop: prefix, output, groups.insert(0, groups[0]),
\* which raises IndexError on an empty list.
GenerateSummaryStart ==
    /\ pc = "generate_summary"
    /\ prefix' = InitialPrefix(title, selftext)
    /\ output' = InitialOutput
    /\ i' = 0
    /\ IF groups = <<>>
           THEN /\ pc' = "raised"
                /\ err' = <<"IndexError", "generate_summary">>
                /\ groups' = groups
           ELSE /\ pc' = "loop"
                /\ groups' = InsertFirst(groups)
                /\ err' = err
    /\ UNCHANGED <<data, contents, title, selftext, max_number_of_passes, calls, saved>>

\* One more group of groups[:MAX_NUMBER_OF_SUMMARIES]: the prompt is built and
\* complete_chunk calls openai.Completion.create.
CompleteChunkInvoke ==
    /\ pc = "loop"
    /\ i < Len(PassGroups(groups, max_number_of_passes))
    /\ LET prompt == BuildPrompt(prefix, PassGroups(groups, max_number_of_passes)[i + 1])
       IN  calls' = Append(calls, [prompt |-> prompt,
                                   max_tokens |-> MaxTokensFor(prompt),
                                   status |-> "pending",
                                   text |-> <<>>])
    /\ pc' = "complete_chunk"
    /\ UNCHANGED <<data, contents, groups, title, selftext, max_number_of_passes,
                   prefix, output, i, err, saved>>

\* The provider answers with a completion of at most max_tokens tokens; the
\* rest of the loop body runs: the prefix of the next pass and the transcript
\* block of this one.
ProviderReturns ==
    /\ pc = "complete_chunk"
    /\ \E summary \in Completions :
        /\ get_token_length(summary) <= calls[Len(calls)].max_tokens
        /\ calls' = [calls EXCEPT ![Len(calls)].status = "returned",
                                  ![Len(calls)].text = summary]
        /\ prefix' = NextPrefix(title, prefix, summary)
        /\ output' = output \o OutputBlock(i, calls[Len(calls)].prompt, summary)
    /\ i' = i + 1
    /\ pc' = "loop"
    /\ UNCHANGED <<data, contents, groups, title, selftext, max_number_of_passes,
                   err, saved>>

\* A slip: the error of the provider is caught and the pass counts as done,
\* with an empty summary.
ProviderRaises_swallowed ==
    /\ pc = "complete_chunk"
    /\ calls' = [calls EXCEPT ![Len(calls)].status = "raised"]
    /\ prefix' = NextPrefix(title, prefix, <<>>)
    /\ output' = output \o OutputBlock(i, calls[Len(calls)].prompt, <<>>)
    /\ i' = i + 1
    /\ pc' = "loop"
    /\ UNCHANGED <<data, contents, groups, title, selftext, max_number_of_passes,
                   err, saved>>

\* The provider raises: nothing catches the exception, neither complete_chunk
\* nor generate_summary nor main.
ProviderRaises ==
    /\ pc = "complete_chunk"
    /\ calls' = [calls EXCEPT ![Len(calls)].status = "raised"]
    /\ pc' = "raised"
    /\ err' = <<"OpenAIError", "complete_chunk">>
    /\ UNCHANGED <<data, contents, groups, title, selftext, max_number_of_passes,
                   prefix, output, i, saved>>

\* The loop is over: generate_summary returns output.
GenerateSummaryReturn ==
    /\ pc = "loop"
    /\ i >= Len(PassGroups(groups, max_number_of_passes))
    /\ pc' = "save_output"
    /\ UNCHANGED <<data, contents, groups, title, selftext, max_number_of_passes,
                   prefix, output, i, calls, err, saved>>

\* save_output(title, output): the transcript is written to a file named
\* after the title.
MainSaveOutput ==
    /\ pc = "save_output"
    /\ saved' = Append(saved, [title |-> title, content |-> output])
    /\ pc' = "done"
    /\ UNCHANGED <<data, contents, groups, title, selftext, max_number_of_passes,
                   prefix, output, i, calls, err>>

Next ==
    \/ MainGetMetadata
    \/ MainConcatenateBodies
    \/ GenerateSummaryStart
    \/ CompleteChunkInvoke
    \/ ProviderReturns
    \/ ProviderRaises
    \/ GenerateSummaryReturn
    \/ MainSaveOutput

Spec == Init /\ [][Next]_vars

----------------------------------------------------------------------------
(* What the claims are stated with *)

RECURSIVE KeepFrom(_, _)
\* The symbols of text from position j on, without every newline that
\* directly follows a newline.
KeepFrom(text, j) ==
    IF j > Len(text) THEN <<>>
    ELSE (IF j > 1 /\ text[j] = NL /\ text[j - 1] = NL THEN <<>> ELSE <<text[j]>>)
         \o KeepFrom(text, j + 1)

\* A body with each run of newlines collapsed to one newline.
Normalized(text) == KeepFrom(text, 1)

\* What a record contributes to the chunks: nothing when its body is empty.
Contribution(rec) == IF rec[2] = <<>> THEN <<>> ELSE Normalized(rec[2]) \o <<NL>>

NonEmptyBody(rec) == rec[2] # <<>>

\* A body whose own token count exceeds the budget.
Oversized(rec) == NonEmptyBody(rec) /\ get_token_length(rec[2]) > MAX_CHUNK_SIZE

RECURSIVE NodePaths(_)
\* The positions of the nodes of a tree: a position is the list of the child
\* indexes that lead from the root to the node.
NodePaths(node) ==
    {<<>>} \cup UNION {{<<k>> \o q : q \in NodePaths(node.kids[k])} :
                         k \in 1..Len(node.kids)}

RECURSIVE NodeAt(_, _)
NodeAt(node, p) == IF p = <<>> THEN node ELSE NodeAt(node.kids[Head(p)], Tail(p))

RECURSIVE KeyPath(_, _)
\* The keys and stringified indexes that lead from the root to position p.
KeyPath(node, p) ==
    IF p = <<>> THEN <<>>
    ELSE <<IF node.kind = "dict" THEN node.keys[Head(p)] ELSE ToString(Head(p) - 1)>>
         \o KeyPath(node.kids[Head(p)], Tail(p))

\* Position p comes before position q in depth-first pre-order: a node
\* before its descendants, an earlier child's subtree before a later child's.
PreOrderBefore(p, q) ==
    /\ p # q
    /\ \/ /\ Len(p) < Len(q)
          /\ \A j \in 1..Len(p) : p[j] = q[j]
       \/ \E j \in 1..Min(Len(p), Len(q)) :
              /\ p[j] < q[j]
              /\ \A h \in 1..(j - 1) : p[h] = q[h]

\* The positions of the mappings of a tree that have a 'body' key.
BodyPositions(tree) ==
    {p \in NodePaths(tree) : NodeAt(tree, p).kind = "dict" /\ HasKey(NodeAt(tree, p), "body")}

\* The chunks handed to generate_summary, before it inserts the first again.
HandedChunks == concatenate_bodies(contents)

PositionOf(text, sym) == CHOOSE k \in 1..Len(text) : text[k] = sym

\* The group of a prompt: what stands between "COMMENTS BEGIN\n" and
\* "\nCOMMENTS END".
PromptGroup(prompt) ==
    SubSeq(prompt, PositionOf(prompt, "COMMENTS BEGIN") + 2,
                   PositionOf(prompt, "COMMENTS END") - 2)

\* The prefix of a prompt: what stands before "\n\n" and the instruction text.
PromptPrefix(prompt) == SubSeq(prompt, 1, PositionOf(prompt, "INSTRUCTION_TEXT") - 3)

\* The transcript blocks of an output.
TranscriptBlocks(text) == Cardinality({k \in 1..Len(text) : text[k] = "SUMMARY COUNT: "})

\* generate_summary has been called.
GenerateSummaryCalled ==
    \/ pc \in {"loop", "complete_chunk", "save_output", "done"}
    \/ pc = "raised" /\ err[2] \in {"generate_summary", "complete_chunk"}

\* generate_summary has returned.
GenerateSummaryReturned == pc \in {"save_output", "done"}

----------------------------------------------------------------------------
(* Claims about concatenate_bodies, under SpecChunk *)

\* C1: concatenate_bodies neither drops nor duplicates a body: the chunks
\* concatenated in order are the in-order concatenation of every non-empty
\* body, newline runs collapsed, each followed by one newline; the records
\* with an empty body contribute nothing and change no chunk boundary.
C1_ChunksReproduceBodies ==
    pc = "chunked" =>
        /\ Concat(groups) = Concat([k \in 1..Len(contents) |-> Contribution(contents[k])])
        /\ groups = concatenate_bodies(SelectSeq(contents, NonEmptyBody))

\* C1's case: several chunks, from records of which one is empty and one
\* holds a run of newlines.
C1_Witness ==
    /\ pc = "chunked"
    /\ Len(groups) >= 2
    /\ \E k \in 1..Len(contents) : contents[k][2] = <<>>
    /\ \E k \in 1..Len(contents) : Normalized(contents[k][2]) # contents[k][2]

\* C2: every chunk has at most MAX_CHUNK_SIZE tokens, except a chunk built
\* from exactly one body whose own token count exceeds the budget.
C2_ChunkWithinBudget ==
    pc = "chunked" =>
        \A g \in 1..Len(groups) :
            \/ get_token_length(groups[g]) <= MAX_CHUNK_SIZE
            \/ \E k \in 1..Len(contents) :
                   Oversized(contents[k]) /\ groups[g] = Contribution(contents[k])

\* C3: a body whose own token count exceeds the budget is in a chunk that
\* holds only that body; bodies of 10, 2600 and 5 tokens make 3 chunks.
C3_OversizedBodyAlone ==
    pc = "chunked" =>
        /\ \A k \in 1..Len(contents) :
               Oversized(contents[k]) =>
                   \E g \in 1..Len(groups) : groups[g] = Contribution(contents[k])
        /\ ([k \in 1..Len(contents) |-> contents[k][2]]
               = << <<"t10">>, <<"t2600">>, <<"t5">> >>
            => Len(groups) = 3)

----------------------------------------------------------------------------
(* Claims about get_body_contents, under SpecFlatten *)

\* C10: get_body_contents yields exactly one record per mapping that has a
\* 'body' key and nothing for any other node, in depth-first pre-order; the
\* record holds the joined path of the mapping and the value of its 'body'
\* key; a second run on the same tree yields the same records.
C10_OneRecordPerBodyInPreOrder ==
    pc \in {"flattened", "reflattened"} =>
        LET B == BodyPositions(data)
        IN  /\ Len(contents) = Cardinality(B)
            /\ \A p \in B :
                   contents[1 + Cardinality({q \in B : PreOrderBefore(q, p)})]
                       = <<JoinPath(KeyPath(data, p)), Lookup(NodeAt(data, p), "body")>>

\* C10's case: the second run is over, on a tree where a mapping with a
\* body holds, under a key that comes before its 'body' key, a mapping with
\* a body.
C10_Witness ==
    /\ pc = "reflattened"
    /\ data.kind = "dict"
    /\ data.keys = <<"replies", "body">>
    /\ data.kids[1].kind = "dict"
    /\ HasKey(data.kids[1], "body")
    /\ Len(contents) = 2

----------------------------------------------------------------------------
(* Claims about generate_summary and main, under Spec *)

\* C4 as claimed: with M >= 1 chunks handed to generate_summary and a pass
\* cap N, the passes executed (provider invocations, transcript blocks) are
\* exactly min(N, M).
C4_PassesAreMinOfCapAndChunks ==
    (GenerateSummaryReturned /\ Len(HandedChunks) >= 1) =>
        /\ Len(calls) = Min(max_number_of_passes, Len(HandedChunks))
        /\ TranscriptBlocks(output) = Min(max_number_of_passes, Len(HandedChunks))

\* C4 as amended: never more than min(N, M + 1) passes are executed, and a
\* run of generate_summary that returns has executed exactly min(N, M + 1)
\* passes, each one provider invocation that returned and one transcript block.
C4_PassesAreMinOfCapAndChunksPlusOne ==
    /\ Len(calls) <= Min(max_number_of_passes, Len(HandedChunks) + 1)
    /\ GenerateSummaryReturned =>
        /\ Len(HandedChunks) >= 1
        /\ Len(calls) = Min(max_number_of_passes, Len(HandedChunks) + 1)
        /\ TranscriptBlocks(output) = Len(calls)
        /\ \A k \in 1..Len(calls) : calls[k].status = "returned"

\* C4's case: a cap above the number of chunks, and the run is over.
C4_Witness ==
    /\ pc = "done"
    /\ Len(HandedChunks) = 1
    /\ max_number_of_passes = 3
    /\ Len(calls) = 2

\* C5: generate_summary called with an empty chunk list ends normally,
\* without a transcript block and without invoking the provider.
C5_EmptyChunksReturnQuietly ==
    (GenerateSummaryCalled /\ HandedChunks = <<>>) =>
        /\ pc # "raised"
        /\ calls = <<>>
        /\ TranscriptBlocks(output) = 0

\* C6: the provider is only ever invoked with a strictly positive max_tokens;
\* a prompt that leaves no budget ends the run with PromptTooLargeError instead.
C6_ProviderBudgetPositive ==
    \A k \in 1..Len(calls) : calls[k].max_tokens > 0

\* C7: the chunks submitted to the provider are, in pass order, chunk[0],
\* chunk[0], chunk[1], chunk[2], ...; a pass starts only when every earlier
\* invocation has returned.
C7_ChunksInOrderFirstTwice ==
    \A k \in 1..Len(calls) :
        /\ k - 1 <= Len(HandedChunks)
        /\ PromptGroup(calls[k].prompt) = HandedChunks[IF k = 1 THEN 1 ELSE k - 1]
        /\ k < Len(calls) => calls[k].status = "returned"

\* C7's case: three passes over chunks of which the first two differ.
C7_Witness ==
    /\ Len(calls) = 3
    /\ Len(HandedChunks) >= 2
    /\ HandedChunks[1] # HandedChunks[2]

\* C8: the prefix of the prompt of every pass after the first is the title,
\* the completion of the pass before it and the end marker, and nothing else.
C8_PrefixIsTitleAndLastCompletion ==
    \A k \in 2..Len(calls) :
        PromptPrefix(calls[k].prompt)
            = title \o <<NL, NL>> \o calls[k - 1].text \o <<NL, "END">>

\* C8's case: a third pass, after two passes with different completions.
C8_Witness ==
    /\ Len(calls) = 3
    /\ calls[1].text # calls[2].text
    /\ selftext # <<>>

\* C9: when the provider raises in a pass, that invocation is the last one
\* of the run, the run has ended with the exception, and save_output is never
\* called.
C9_ProviderErrorAbortsRun ==
    /\ \A k \in 1..Len(calls) :
           calls[k].status = "raised" =>
               /\ k = Len(calls)
               /\ pc = "raised"
               /\ saved = <<>>
    /\ pc = "raised" => saved = <<>> /\ ~ENABLED Next

\* C9's case: the provider raised in the second pass of a run that had a
\* third pass to do.
C9_Witness ==
    /\ pc = "raised"
    /\ Len(calls) = 2
    /\ calls[2].status = "raised"
    /\ Min(max_number_of_passes, Len(groups)) = 3

----------------------------------------------------------------------------
(* Claims about get_metadata_from_reddit_json and main, under Spec *)

\* The expected thread-root shape: the payload is a list whose first element
\* holds, under "data" and "children", a list whose first element holds,
\* under "data", a mapping with a title and a selftext.
ThreadRootShape(tree) ==
    /\ tree.kind = "list" /\ Len(tree.kids) >= 1
    /\ tree.kids[1].kind = "dict" /\ HasKey(tree.kids[1], "data")
    /\ LET listing == Lookup(tree.kids[1], "data")
       IN  /\ listing.kind = "dict" /\ HasKey(listing, "children")
           /\ LET children == Lookup(listing, "children")
              IN  /\ children.kind = "list" /\ Len(children.kids) >= 1
                  /\ children.kids[1].kind = "dict" /\ HasKey(children.kids[1], "data")
                  /\ LET child == Lookup(children.kids[1], "data")
                     IN  /\ child.kind = "dict"
                         /\ HasKey(child, "title")
                         /\ HasKey(child, "selftext")

\* The mapping of the first child of a payload with the thread-root shape.
ThreadRoot(tree) ==
    Lookup(Lookup(Lookup(tree.kids[1], "data"), "children").kids[1], "data")

\* C11: once get_metadata_from_reddit_json has run, on a payload with the
\* thread-root shape it has returned the title and the selftext, and on any
\* other payload the run has ended with the one error kind the function
\* raises for a missing field (ValueError in the code), before any record is
\* drawn, any chunk is built and any pass is started.
C11_MetadataFailsWithOneErrorKind ==
    pc # "get_metadata" =>
        IF ThreadRootShape(data)
            THEN /\ ~(pc = "raised" /\ err[2] = "get_metadata_from_reddit_json")
                 /\ title = Lookup(ThreadRoot(data), "title").val
                 /\ selftext = Lookup(ThreadRoot(data), "selftext").val
            ELSE /\ pc = "raised"
                 /\ err = <<"ValueError", "get_metadata_from_reddit_json">>
                 /\ contents = <<>>
                 /\ groups = <<>>
                 /\ calls = <<>>
                 /\ saved = <<>>

====
